---- MODULE Spec2Model ----
(***************************************************************************)
(* Alphora Agent 101: ticket classification, SOP retrieval and action      *)
(* planning.  The AI service (src/ai-service), its RAG index               *)
(* (src/ai-service/rag) and the agent prototype (src/src) are modelled as  *)
(* request/response state machines over the same variables.                *)
(*                                                                         *)
(* Strings are sequences of one-character strings, so that `in`, lower()   *)
(* and concatenation are computed as Python computes them.                 *)
(*                                                                         *)
(* Floats are integers in thousandths; an IEEE-754 result that lies one    *)
(* ulp above its decimal is the decimal plus 1 (0.9 + 0.05 =               *)
(* 0.9500000000000001 is 951, 0.85 + 0.1 = 0.95 is 950), which keeps the   *)
(* order of every comparison the code makes.                               *)
(***************************************************************************)
EXTENDS Integers, Sequences, FiniteSets, TLC

VARIABLES req, res, dbUp, sops, nextId, client, kb,
          embedding_service,  \* the module global _embedding_service of embeddings.py
          instances,          \* the number of EmbeddingService objects constructed
          handlers,           \* the position of every request handler in flight
          replacing           \* the position of a caller replacing a tenant's SOPs

\* the state of the processes that run beside the request being answered
process == <<embedding_service, instances, handlers, replacing>>

vars == <<req, res, dbUp, sops, nextId, client, kb, process>>

\* Python's None where a string is expected, and where an object is expected
None == "None"
Absent == [absent |-> TRUE]

\* no request is being handled
Idle == [op |-> "idle"]

\* the request handlers of the AI service that may be in flight together
Handlers == {"h1", "h2"}

\* a handler that holds no request
Free == [pc |-> "free"]

\* a process that has imported rag.embeddings and constructed its retriever
\* or ingester, and one that has not
ServiceConstructed ==
  /\ embedding_service = [instance |-> 1]
  /\ instances = 1
  /\ handlers = [h \in Handlers |-> Free]
  /\ replacing = Idle

NoEmbeddingService ==
  /\ embedding_service = Absent
  /\ instances = 0
  /\ handlers = [h \in Handlers |-> Free]
  /\ replacing = Idle

(***************************************************************************)
(* Bounds of the model.                                                    *)
(***************************************************************************)
\* phrases in a ticket's description
MaxPhrases == 1

(***************************************************************************)
(* Python str operations.                                                  *)
(***************************************************************************)
UpperCase == <<"A","B","C","D","E","F","G","H","I","J","K","L","M",
               "N","O","P","Q","R","S","T","U","V","W","X","Y","Z">>
LowerCase == <<"a","b","c","d","e","f","g","h","i","j","k","l","m",
               "n","o","p","q","r","s","t","u","v","w","x","y","z">>

LowerChar(c) ==
  IF \E i \in 1..26 : UpperCase[i] = c
    THEN LowerCase[CHOOSE i \in 1..26 : UpperCase[i] = c]
    ELSE c

\* str.lower()
Lower(s) == [i \in 1..Len(s) |-> LowerChar(s[i])]

\* `sub in s`
Contains(s, sub) ==
  \E i \in 1..(Len(s) - Len(sub) + 1) : SubSeq(s, i, i + Len(sub) - 1) = sub

\* the truth value of an Optional[str]
Truthy(x) == x # None /\ x # ""

\* " ".join(parts)
RECURSIVE Join(_)
Join(parts) ==
  IF parts = <<>> THEN <<>>
  ELSE IF Len(parts) = 1 THEN parts[1]
  ELSE parts[1] \o <<" ">> \o Join(Tail(parts))

(***************************************************************************)
(* src/ai-service/main.py: intent classification.                          *)
(***************************************************************************)
Intent == {"PASSWORD_RESET", "SYSTEM_RESTART", "VPN_ACCESS", "BACKUP_VERIFICATION",
           "SOFTWARE_INSTALLATION", "PRINTER_ISSUE", "EMAIL_ISSUE",
           "NETWORK_CONNECTIVITY", "UNKNOWN"}

classification_rules ==
  <<
     [intent |-> "PASSWORD_RESET", confidence_base |-> 900, keywords |-> <<
        <<"p","a","s","s","w","o","r","d">>,
        <<"r","e","s","e","t">>,
        <<"f","o","r","g","o","t">>,
        <<"l","o","g","i","n">>,
        <<"c","a","n","n","o","t"," ","l","o","g"," ","i","n">>,
        <<"l","o","c","k","e","d"," ","o","u","t">>,
        <<"c","r","e","d","e","n","t","i","a","l","s">>
     >>],
     [intent |-> "SYSTEM_RESTART", confidence_base |-> 850, keywords |-> <<
        <<"r","e","s","t","a","r","t">>,
        <<"r","e","b","o","o","t">>,
        <<"s","l","o","w">>,
        <<"f","r","o","z","e","n">>,
        <<"h","u","n","g">>,
        <<"n","o","t"," ","r","e","s","p","o","n","d","i","n","g">>,
        <<"p","e","r","f","o","r","m","a","n","c","e">>
     >>],
     [intent |-> "VPN_ACCESS", confidence_base |-> 900, keywords |-> <<
        <<"v","p","n">>,
        <<"r","e","m","o","t","e"," ","a","c","c","e","s","s">>,
        <<"w","o","r","k"," ","f","r","o","m"," ","h","o","m","e">>,
        <<"c","o","n","n","e","c","t"," ","r","e","m","o","t","e","l","y">>,
        <<"a","c","c","e","s","s"," ","n","e","t","w","o","r","k">>
     >>],
     [intent |-> "BACKUP_VERIFICATION", confidence_base |-> 850, keywords |-> <<
        <<"b","a","c","k","u","p">>,
        <<"r","e","s","t","o","r","e">>,
        <<"d","a","t","a"," ","r","e","c","o","v","e","r","y">>,
        <<"b","a","c","k","u","p"," ","f","a","i","l","e","d">>
     >>],
     [intent |-> "SOFTWARE_INSTALLATION", confidence_base |-> 800, keywords |-> <<
        <<"i","n","s","t","a","l","l">>,
        <<"s","o","f","t","w","a","r","e">>,
        <<"a","p","p","l","i","c","a","t","i","o","n">>,
        <<"p","r","o","g","r","a","m">>,
        <<"n","e","e","d"," ","a","c","c","e","s","s"," ","t","o">>
     >>],
     [intent |-> "PRINTER_ISSUE", confidence_base |-> 850, keywords |-> <<
        <<"p","r","i","n","t","e","r">>,
        <<"p","r","i","n","t">>,
        <<"p","r","i","n","t","i","n","g">>,
        <<"c","a","n","t"," ","p","r","i","n","t">>,
        <<"p","r","i","n","t"," ","j","o","b">>
     >>],
     [intent |-> "EMAIL_ISSUE", confidence_base |-> 850, keywords |-> <<
        <<"e","m","a","i","l">>,
        <<"o","u","t","l","o","o","k">>,
        <<"c","a","n","n","o","t"," ","s","e","n","d">>,
        <<"c","a","n","n","o","t"," ","r","e","c","e","i","v","e">>,
        <<"m","a","i","l","b","o","x">>
     >>],
     [intent |-> "NETWORK_CONNECTIVITY", confidence_base |-> 800, keywords |-> <<
        <<"n","e","t","w","o","r","k">>,
        <<"i","n","t","e","r","n","e","t">>,
        <<"w","i","f","i">>,
        <<"c","o","n","n","e","c","t","i","o","n">>,
        <<"c","a","n","n","o","t"," ","c","o","n","n","e","c","t">>,
        <<"o","f","f","l","i","n","e">>
     >>]
  >>

\* min(a, b)
Min(a, b) == IF a <= b THEN a ELSE b

\* rule["confidence_base"] + (matches - 1) * 0.05 in IEEE-754 doubles:
\* 0.9 + 0.05 = 0.9500000000000001, 0.8 + 0.05 = 0.8500000000000001 and
\* 0.8 + 0.15000000000000002 = 0.9500000000000001; the other sums are the decimals.
FloatSum(base, matches) ==
  base + (matches - 1) * 50
       + (IF \/ (base = 900 /\ matches = 2)
             \/ (base = 800 /\ matches \in {2, 4})
            THEN 1 ELSE 0)

\* sum(1 for keyword in rule["keywords"] if keyword in text)
Matches(rule, text) ==
  Cardinality({k \in 1..Len(rule.keywords) : Contains(text, rule.keywords[k])})

\* the sum without the cap at 0.98
RuleConfidenceUncapped(rule, matches) == FloatSum(rule.confidence_base, matches)

\* min(rule["confidence_base"] + (matches - 1) * 0.05, 0.98)
RuleConfidence(rule, matches) == Min(FloatSum(rule.confidence_base, matches), 980)

\* the loop with ">=" where the code has ">": of equal confidences the last wins
RECURSIVE BestMatchLastWins(_, _)
BestMatchLastWins(text, n) ==
  IF n = 0 THEN [best_match |-> "None", best_confidence |-> 0]
  ELSE LET prev == BestMatchLastWins(text, n - 1)
           rule == classification_rules[n]
           matches == Matches(rule, text)
           confidence == RuleConfidence(rule, matches)
       IN IF matches > 0 /\ confidence >= prev.best_confidence
            THEN [best_match |-> rule.intent, best_confidence |-> confidence]
            ELSE prev

\* the loop over classification_rules: rules 1..n folded into
\* (best_match, best_confidence)
RECURSIVE BestMatch(_, _)
BestMatch(text, n) ==
  IF n = 0 THEN [best_match |-> "None", best_confidence |-> 0]
  ELSE LET prev == BestMatch(text, n - 1)
           rule == classification_rules[n]
           matches == Matches(rule, text)
           confidence == RuleConfidence(rule, matches)
       IN IF matches > 0 /\ confidence > prev.best_confidence
            THEN [best_match |-> rule.intent, best_confidence |-> confidence]
            ELSE prev

automatable_intents ==
  {"PASSWORD_RESET", "SYSTEM_RESTART", "BACKUP_VERIFICATION", "PRINTER_ISSUE"}

\* automatable decided by the confidence alone, whatever the intent
IsAutomatableAnyIntent(best_match, best_confidence) ==
  best_confidence >= 750

IsAutomatable(best_match, best_confidence) ==
  best_match \in automatable_intents /\ best_confidence >= 750

classify_ticket_intent(subject, description) ==
  LET text == Lower(subject \o <<" ">> \o description)
      best == BestMatch(text, Len(classification_rules))
  IN IF best.best_match = "None"
       THEN [intent |-> "UNKNOWN", confidence |-> 0, is_automatable |-> FALSE]
       ELSE [intent |-> best.best_match,
             confidence |-> best.best_confidence,
             is_automatable |-> IsAutomatable(best.best_match, best.best_confidence)]

(***************************************************************************)
(* src/ai-service/rag/ingestion.py: DocumentChunker.                       *)
(***************************************************************************)
\* characters matched by \s and removed by str.strip()
Whitespace == {" ", "\n", "\t"}

\* str.strip(): from the first to the last character that is not whitespace
Strip(s) ==
  LET keep == {i \in 1..Len(s) : s[i] \notin Whitespace}
  IN IF keep = {} THEN <<>>
     ELSE SubSeq(s, CHOOSE i \in keep : \A k \in keep : i <= k,
                    CHOOSE j \in keep : \A k \in keep : k <= j)

\* s[-n:]; Python reads s[-0:] as s[0:], the whole string
NegSlice(s, n) ==
  IF n = 0 \/ n >= Len(s) THEN s ELSE SubSeq(s, Len(s) - n + 1, Len(s))

\* the end of the match of \n\s*\n that starts at i (greedy), or 0 if none does
MatchEnd(text, i) ==
  IF text[i] # "\n" THEN 0
  ELSE LET ends == {j \in (i + 1)..Len(text) :
                      /\ text[j] = "\n"
                      /\ \A k \in (i + 1)..(j - 1) : text[k] \in Whitespace}
       IN IF ends = {} THEN 0 ELSE CHOOSE j \in ends : \A k \in ends : k <= j

\* re.split(r'\n\s*\n', text), from position start on: cut at the leftmost match
RECURSIVE ReSplit(_, _)
ReSplit(text, start) ==
  LET starts == {i \in start..Len(text) : MatchEnd(text, i) # 0}
  IN IF starts = {} THEN <<SubSeq(text, start, Len(text))>>
     ELSE LET i == CHOOSE m \in starts : \A k \in starts : m <= k
          IN <<SubSeq(text, start, i - 1)>> \o ReSplit(text, MatchEnd(text, i) + 1)

\* the loop of chunk_by_paragraphs and its final append
RECURSIVE ChunkLoop(_, _, _, _, _)
ChunkLoop(paragraphs, chunks, current_chunk, chunk_size, overlap) ==
  IF paragraphs = <<>>
    THEN IF current_chunk # <<>> THEN Append(chunks, Strip(current_chunk)) ELSE chunks
  ELSE LET para == Strip(Head(paragraphs))
       IN IF para = <<>>
            THEN ChunkLoop(Tail(paragraphs), chunks, current_chunk, chunk_size, overlap)
          ELSE IF Len(current_chunk) + Len(para) > chunk_size /\ current_chunk # <<>>
            THEN ChunkLoop(Tail(paragraphs), Append(chunks, Strip(current_chunk)),
                           NegSlice(current_chunk, overlap) \o <<" ">> \o para,
                           chunk_size, overlap)
          ELSE ChunkLoop(Tail(paragraphs), chunks,
                         IF current_chunk # <<>>
                           THEN current_chunk \o <<"\n", "\n">> \o para
                           ELSE para,
                         chunk_size, overlap)

chunk_by_paragraphs(text, chunk_size, overlap) ==
  ChunkLoop(ReSplit(text, 1), <<>>, <<>>, chunk_size, overlap)

\* the end of the match of [.!?]+\s+ that starts at i (greedy), or 0 if none does
SentenceMatchEnd(text, i) ==
  IF text[i] \notin {".", "!", "?"} THEN 0
  ELSE LET marks == {j \in i..Len(text) : \A k \in i..j : text[k] \in {".", "!", "?"}}
           last_mark == CHOOSE j \in marks : \A k \in marks : k <= j
           spaces == {j \in (last_mark + 1)..Len(text) :
                        \A k \in (last_mark + 1)..j : text[k] \in Whitespace}
       IN IF spaces = {} THEN 0 ELSE CHOOSE j \in spaces : \A k \in spaces : k <= j

\* re.split(r'[.!?]+\s+', text), from position start on
RECURSIVE ReSplitSentences(_, _)
ReSplitSentences(text, start) ==
  LET starts == {i \in start..Len(text) : SentenceMatchEnd(text, i) # 0}
  IN IF starts = {} THEN <<SubSeq(text, start, Len(text))>>
     ELSE LET i == CHOOSE m \in starts : \A k \in starts : m <= k
          IN <<SubSeq(text, start, i - 1)>>
             \o ReSplitSentences(text, SentenceMatchEnd(text, i) + 1)

\* the loop of chunk_by_sentences and its final append
RECURSIVE SentenceLoop(_, _, _, _)
SentenceLoop(sentences, chunks, current_chunk, chunk_size) ==
  IF sentences = <<>>
    THEN IF current_chunk # <<>> THEN Append(chunks, Strip(current_chunk)) ELSE chunks
  ELSE LET sentence == Strip(Head(sentences))
       IN IF sentence = <<>>
            THEN SentenceLoop(Tail(sentences), chunks, current_chunk, chunk_size)
          ELSE IF Len(current_chunk) + Len(sentence) > chunk_size /\ current_chunk # <<>>
            THEN SentenceLoop(Tail(sentences), Append(chunks, Strip(current_chunk)),
                              sentence, chunk_size)
          ELSE SentenceLoop(Tail(sentences), chunks,
                            IF current_chunk # <<>>
                              THEN current_chunk \o <<" ">> \o sentence
                              ELSE sentence,
                            chunk_size)

chunk_by_sentences(text, chunk_size) ==
  SentenceLoop(ReSplitSentences(text, 1), <<>>, <<>>, chunk_size)

\* DocumentChunker() as SOPIngester constructs it
chunk_size == 500
overlap == 50

(***************************************************************************)
(* src/ai-service/rag/embeddings.py.  The sentence-transformers model is   *)
(* outside the repository: a deterministic stand-in maps a text to one of  *)
(* NumVectors directions, and the similarity of two directions is fixed.   *)
(***************************************************************************)
NumVectors == 4

\* EmbeddingService.embed_text
embed_text(text) == Len(text) % NumVectors

\* 1 - (embedding <=> query), in hundredths
Similarity(v1, v2) ==
  LET d == IF v1 >= v2 THEN v1 - v2 ELSE v2 - v1
  IN CASE d = 0 -> 100
       [] d = 1 -> 50
       [] d = 2 -> 30
       [] OTHER -> 0

(***************************************************************************)
(* The sops table and src/ai-service/rag/ingestion.py: SOPIngester.        *)
(* A row is (id, tenant_id, title, content, category, chunk_index,         *)
(* embedding); tags, metadata and created_at are stored and never read by  *)
(* a condition, and are left out.                                          *)
(***************************************************************************)
\* the records ingest_sop inserts: one row per chunk, ids from the table's serial
IngestRecords(nid, tenant_id, title, content, category) ==
  LET chunks == chunk_by_paragraphs(content, chunk_size, overlap)
  IN {[id |-> nid + i - 1, tenant_id |-> tenant_id, title |-> title,
       content |-> chunks[i], category |-> category, chunk_index |-> i - 1,
       embedding |-> embed_text(chunks[i])] : i \in 1..Len(chunks)}

\* an ingest without the rollback: a failed insert leaves the rows it reached
IngestSopNoRollback(table, nid, up, tenant_id, title, content, category) ==
  LET records == IngestRecords(nid, tenant_id, title, content, category)
      chunks == Cardinality(records)
  IN IF ~up
       THEN {[raised |-> TRUE, table |-> table, nid |-> nid, chunks |-> 0]}
       ELSE {[raised |-> FALSE, table |-> table \cup records, nid |-> nid + chunks,
              chunks |-> chunks]}
            \cup {[raised |-> TRUE, table |-> table \cup {r \in records : r.id < n},
                   nid |-> n, chunks |-> 0] : n \in nid..(nid + chunks)}

\* SOPIngester.ingest_sop on a table whose serial stands at nid: the outcomes.
\* psycopg2.connect raises when the store is unreachable; when the insert
\* raises, the rollback undoes the rows, and the serial keeps what it handed out.
ingest_sop(table, nid, up, tenant_id, title, content, category) ==
  LET records == IngestRecords(nid, tenant_id, title, content, category)
      chunks == Cardinality(records)
  IN IF ~up
       THEN {[raised |-> TRUE, table |-> table, nid |-> nid, chunks |-> 0]}
       ELSE {[raised |-> FALSE, table |-> table \cup records, nid |-> nid + chunks,
              chunks |-> chunks]}
            \cup {[raised |-> TRUE, table |-> table, nid |-> n, chunks |-> 0] :
                    n \in nid..(nid + chunks)}

\* SOPIngester.ingest_batch from item i on: sop['tenant_id'], sop['title'],
\* sop['content'] and sop['category'] are read inside the try, and the
\* handler reads sop['title'] again to print the failure
RECURSIVE ingest_batch_from(_, _, _, _, _, _)
ingest_batch_from(table, nid, up, batch, i, stats) ==
  IF i > Len(batch)
    THEN {[raised |-> FALSE, table |-> table, nid |-> nid, stats |-> stats]}
    ELSE LET sop == batch[i]
             outs == IF {"tenant_id", "title", "content", "category"} \subseteq DOMAIN sop
                       THEN ingest_sop(table, nid, up, sop.tenant_id, sop.title,
                                       sop.content, sop.category)
                       ELSE {[raised |-> TRUE, table |-> table, nid |-> nid, chunks |-> 0]}
         IN UNION {IF ~out.raised
                     THEN ingest_batch_from(out.table, out.nid, up, batch, i + 1,
                            [stats EXCEPT !.successful = @ + 1,
                                          !.total_chunks = @ + out.chunks])
                     ELSE IF "title" \in DOMAIN sop
                       THEN ingest_batch_from(out.table, out.nid, up, batch, i + 1,
                              [stats EXCEPT !.failed = @ + 1])
                       ELSE {[raised |-> TRUE, table |-> out.table, nid |-> out.nid,
                              stats |-> stats]} : out \in outs}

ingest_batch(table, nid, up, batch) ==
  ingest_batch_from(table, nid, up, batch, 1,
                    [total_sops |-> Len(batch), successful |-> 0, failed |-> 0,
                     total_chunks |-> 0])

\* a delete without the WHERE clause
DeleteAllSops(table, up, tenant_id) ==
  IF ~up
    THEN [raised |-> TRUE, table |-> table, deleted |-> 0]
    ELSE [raised |-> FALSE, table |-> {},
          deleted |-> Cardinality({r \in table : r.tenant_id = tenant_id})]

\* SOPIngester.delete_tenant_sops: DELETE FROM sops WHERE tenant_id = %s
delete_tenant_sops(table, up, tenant_id) ==
  IF ~up
    THEN [raised |-> TRUE, table |-> table, deleted |-> 0]
    ELSE [raised |-> FALSE, table |-> {r \in table : r.tenant_id # tenant_id},
          deleted |-> Cardinality({r \in table : r.tenant_id = tenant_id})]

(***************************************************************************)
(* src/ai-service/rag/retrieval.py: SOPRetriever.                          *)
(***************************************************************************)
\* a WHERE clause whose floor is exclusive
SearchWhereStrict(table, query_embedding, tenant_id, category_filter, similarity_threshold) ==
  {r \in table :
     /\ r.tenant_id = tenant_id
     /\ Truthy(category_filter) => r.category = category_filter
     /\ Similarity(r.embedding, query_embedding) > similarity_threshold}

\* the rows the WHERE clause of search keeps
SearchWhere(table, query_embedding, tenant_id, category_filter, similarity_threshold) ==
  {r \in table :
     /\ r.tenant_id = tenant_id
     /\ Truthy(category_filter) => r.category = category_filter
     /\ Similarity(r.embedding, query_embedding) >= similarity_threshold}

\* a row of the result: the selected columns and the similarity
ResultRow(r, query_embedding) ==
  [id |-> r.id, tenant_id |-> r.tenant_id, title |-> r.title, content |-> r.content,
   category |-> r.category, chunk_index |-> r.chunk_index,
   similarity |-> Similarity(r.embedding, query_embedding)]

\* a search that cuts to top_k before it applies the category filter
SearchResultsFilterAfter(table, query, tenant_id, top_k, category_filter, similarity_threshold) ==
  LET qe == embed_text(query)
      kept == SearchWhere(table, qe, tenant_id, None, similarity_threshold)
      n == Min(top_k, Cardinality(kept))
      sim(r) == Similarity(r.embedding, qe)
      matches(r) == Truthy(category_filter) => r.category = category_filter
  IN {[i \in 1..Len(SelectSeq(s, matches)) |-> ResultRow(SelectSeq(s, matches)[i], qe)] :
        s \in {s \in [1..n -> kept] :
                 /\ \A i, j \in 1..n : i < j => s[i] # s[j] /\ sim(s[i]) >= sim(s[j])
                 /\ \A r \in kept : (\A i \in 1..n : s[i] # r) =>
                                      \A i \in 1..n : sim(s[i]) >= sim(r)}}

\* ORDER BY embedding <=> query LIMIT top_k: every sequence of the best top_k
\* kept rows by descending similarity; rows of equal distance come in any order
SearchResults(table, query, tenant_id, top_k, category_filter, similarity_threshold) ==
  LET qe == embed_text(query)
      kept == SearchWhere(table, qe, tenant_id, category_filter, similarity_threshold)
      n == Min(top_k, Cardinality(kept))
      sim(r) == Similarity(r.embedding, qe)
  IN {[i \in 1..n |-> ResultRow(s[i], qe)] :
        s \in {s \in [1..n -> kept] :
                 /\ \A i, j \in 1..n : i < j => s[i] # s[j] /\ sim(s[i]) >= sim(s[j])
                 /\ \A r \in kept : (\A i \in 1..n : s[i] # r) =>
                                      \A i \in 1..n : sim(s[i]) >= sim(r)}}

\* a search that answers with no rows when the store is unreachable
SearchSwallowing(table, up, query, tenant_id, top_k, category_filter, similarity_threshold) ==
  IF ~up THEN {[raised |-> FALSE, rows |-> <<>>]}
  ELSE {[raised |-> FALSE, rows |-> rows] :
          rows \in SearchResults(table, query, tenant_id, top_k, category_filter,
                                 similarity_threshold)}

\* SOPRetriever.search: psycopg2.connect raises when the store is unreachable
search(table, up, query, tenant_id, top_k, category_filter, similarity_threshold) ==
  IF ~up THEN {[raised |-> TRUE, rows |-> <<>>]}
  ELSE {[raised |-> FALSE, rows |-> rows] :
          rows \in SearchResults(table, query, tenant_id, top_k, category_filter,
                                 similarity_threshold)}

\* SOPRetriever.hybrid_search
hybrid_search(table, up, query, tenant_id, category, top_k) ==
  search(table, up, query, tenant_id, top_k, category, 30)

(***************************************************************************)
(* Requests: tickets.                                                      *)
(***************************************************************************)
Phrases ==
  {
     <<"C","a","n","n","o","t"," ","l","o","g"," ","i","n","t","o"," ","m","y"," ","a","c","c","o","u","n","t">>,
     <<"f","o","r","g","o","t"," ","m","y"," ","p","a","s","s","w","o","r","d">>,
     <<"a","s","d","k","j","a","s","l","k","d","j">>,
     <<"V","P","N">>,
     <<"r","e","b","o","o","t"," ","p","r","i","n","t","e","r">>,
     <<"b","a","c","k","u","p"," ","f","a","i","l","e","d">>,
     <<"i","n","s","t","a","l","l"," ","s","o","f","t","w","a","r","e">>,
     <<"w","i","f","i">>,
     <<"e","m","a","i","l">>,
     <<"s","l","o","w">>,
     <<"a","p","p"," ","c","r","a","s","h">>
  }

Tenants == {"tenant1", "tenant2"}

\* sequences of at most n phrases
PhraseSeqs(n) == UNION {[1..k -> Phrases] : k \in 0..n}

\* TicketRequest: the subject is empty or a phrase, the description is a
\* sequence of phrases
Tickets ==
  {[ticketId |-> "T-1", tenantId |-> t, subject |-> subject, description |-> Join(ps)] :
      t \in Tenants, subject \in {<<>>} \cup Phrases, ps \in PhraseSeqs(MaxPhrases)}

(***************************************************************************)
(* SOP documents to ingest.                                                *)
(***************************************************************************)
Rep(c, n) == [i \in 1..n |-> c]

\* two short paragraphs: one chunk
DocShort == <<"V","e","r","i","f","y"," ","i","d","e","n","t","i","t","y",".","\n","\n","R","e","s","e","t"," ","t","h","e"," ","p","a","s","s","w","o","r","d",".">>

\* two paragraphs of 300 characters: two chunks
DocLong == Rep("a", 300) \o <<"\n", "\n">> \o Rep("b", 300)

\* whitespace only: no chunk
DocBlank == <<" ", "\n", " ">>

Docs == {DocShort, DocLong, DocBlank}

Categories == {"password_reset", "vpn_access"}

Titles == {"Password Reset Procedure", "VPN Access Setup"}

SampleSops ==
  <<[tenant_id |-> "tenant1", title |-> "Password Reset Procedure",
     category |-> "password_reset", content |-> DocLong],
    [tenant_id |-> "tenant1", title |-> "VPN Access Setup",
     category |-> "vpn_access", content |-> DocShort],
    [tenant_id |-> "tenant2", title |-> "Password Reset Procedure",
     category |-> "password_reset", content |-> DocShort]>>

\* the table after init_database.py ingested these SOPs, in order
RECURSIVE IngestAll(_, _, _)
IngestAll(batch, table, nid) ==
  IF batch = <<>> THEN table
  ELSE LET sop == Head(batch)
           records == IngestRecords(nid, sop.tenant_id, sop.title, sop.content, sop.category)
       IN IngestAll(Tail(batch), table \cup records, nid + Cardinality(records))

(***************************************************************************)
(* src/ai-service/main.py: the endpoints.                                  *)
(***************************************************************************)
category_map ==
  [i \in {"PASSWORD_RESET", "SYSTEM_RESTART", "VPN_ACCESS", "BACKUP_VERIFICATION"} |->
     CASE i = "PASSWORD_RESET" -> "password_reset"
       [] i = "SYSTEM_RESTART" -> "system_restart"
       [] i = "VPN_ACCESS" -> "vpn_access"
       [] i = "BACKUP_VERIFICATION" -> "backup_verification"]

\* dict.get(key) and dict.get(key, default)
Get(dict, key, default) == IF key \in DOMAIN dict THEN dict[key] ELSE default

\* retrieve_sops that takes the general search for every intent
RetrieveSearchGeneral(table, up, ticket, intent) ==
  search(table, up, ticket.subject \o <<" ">> \o ticket.description,
         ticket.tenantId, 5, None, 50)

\* the search retrieve_sops issues for a ticket and an intent
RetrieveSearch(table, up, ticket, intent) ==
  LET query == ticket.subject \o <<" ">> \o ticket.description
      category == Get(category_map, intent, None)
  IN IF Truthy(category)
       THEN hybrid_search(table, up, query, ticket.tenantId, category, 3)
       ELSE search(table, up, query, ticket.tenantId, 5, None, 50)

\* SOPResult(sop_id=r['id'], ...): the response carries no tenant_id
SOPResult(r) ==
  [sop_id |-> r.id, title |-> r.title, content |-> r.content, category |-> r.category,
   similarity |-> r.similarity, chunk_index |-> r.chunk_index]

\* POST /rag: the responses retrieve_sops can give; any exception becomes
\* HTTPException(500)
retrieve_sops(table, up, ticket, intent_param) ==
  LET intent == IF intent_param = None
                  THEN classify_ticket_intent(ticket.subject, ticket.description).intent
                  ELSE intent_param
  IN {IF found.raised
        THEN [status |-> 500, detail |-> "RAG retrieval failed"]
        ELSE [status |-> 200,
              body |-> [query |-> ticket.subject \o <<" ">> \o ticket.description,
                        tenant_id |-> ticket.tenantId,
                        results |-> [i \in 1..Len(found.rows) |-> SOPResult(found.rows[i])],
                        total_results |-> Len(found.rows)]] :
        found \in RetrieveSearch(table, up, ticket, intent)}

Step(n, d, t, a) ==
  [step_number |-> n, description |-> d, estimated_time_seconds |-> t,
   requires_approval |-> a]

action_plans ==
  [i \in {"PASSWORD_RESET", "SYSTEM_RESTART", "VPN_ACCESS", "BACKUP_VERIFICATION"} |->
     CASE i = "PASSWORD_RESET" ->
            <<Step(1, "Verify user identity via email", 120, FALSE),
              Step(2, "Check account status in directory", 60, FALSE),
              Step(3, "Generate temporary password", 30, FALSE),
              Step(4, "Reset password in identity provider", 60, TRUE),
              Step(5, "Send temporary password to user securely", 90, FALSE),
              Step(6, "Verify successful login and password change", 120, FALSE)>>
       [] i = "SYSTEM_RESTART" ->
            <<Step(1, "Check system status and running processes", 90, FALSE),
              Step(2, "Notify user of pending restart", 120, FALSE),
              Step(3, "Save system state and logs", 60, FALSE),
              Step(4, "Initiate system restart via RMM", 180, TRUE),
              Step(5, "Verify system comes back online", 300, FALSE),
              Step(6, "Check all services started correctly", 120, FALSE)>>
       [] i = "VPN_ACCESS" ->
            <<Step(1, "Validate request and manager approval", 180, FALSE),
              Step(2, "Verify device security compliance", 120, FALSE),
              Step(3, "Create VPN user profile", 180, TRUE),
              Step(4, "Configure multi-factor authentication", 240, FALSE),
              Step(5, "Deploy VPN client to user device", 300, FALSE),
              Step(6, "Test connection with user", 420, FALSE)>>
       [] i = "BACKUP_VERIFICATION" ->
            <<Step(1, "Access backup management console", 60, FALSE),
              Step(2, "Review last 24 hours of backup jobs", 180, FALSE),
              Step(3, "Verify backup integrity and file sizes", 240, FALSE),
              Step(4, "Perform test restore if needed", 600, TRUE),
              Step(5, "Document verification results", 120, FALSE)>>]

\* action_plans.get(classification.intent, [manual investigation])
\* a lookup whose fallback is the empty plan
PlanStepsEmptyFallback(intent) == Get(action_plans, intent, <<>>)

PlanSteps(intent) ==
  Get(action_plans, intent, <<Step(1, "Manual investigation required", 1800, TRUE)>>)

\* a total that keeps the last step's time where the code accumulates
TotalTimeOfLastStep(steps) ==
  IF steps = <<>> THEN 0 ELSE steps[Len(steps)].estimated_time_seconds

\* sum(step.estimated_time_seconds for step in steps)
RECURSIVE TotalTime(_)
TotalTime(steps) ==
  IF steps = <<>> THEN 0
  ELSE Head(steps).estimated_time_seconds + TotalTime(Tail(steps))

\* approval decided with "and" where the code has "or"
RequiresApprovalBoth(steps, classification) ==
  /\ \E i \in 1..Len(steps) : steps[i].requires_approval
  /\ ~classification.is_automatable

\* any(step.requires_approval for step in steps) or not classification.is_automatable
RequiresApproval(steps, classification) ==
  \/ \E i \in 1..Len(steps) : steps[i].requires_approval
  \/ ~classification.is_automatable

\* the risk level without the HIGH override
RiskLevelBase(classification) ==
  IF classification.is_automatable /\ classification.confidence > 850
    THEN "LOW"
    ELSE "MEDIUM"

\* "LOW" if automatable and confidence > 0.85 else "MEDIUM"; then the HIGH override
RiskLevel(classification) ==
  IF classification.confidence < 600 \/ classification.intent = "UNKNOWN"
    THEN "HIGH"
    ELSE IF classification.is_automatable /\ classification.confidence > 850
           THEN "LOW"
           ELSE "MEDIUM"

\* PlanResponse
PlanResponse(ticket, classification) ==
  LET steps == PlanSteps(classification.intent)
  IN [ticket_id |-> ticket.ticketId,
      intent |-> classification.intent,
      action_steps |-> steps,
      total_estimated_time |-> TotalTime(steps),
      requires_human_approval |-> RequiresApproval(steps, classification),
      risk_level |-> RiskLevel(classification)]

(***************************************************************************)
(* src/src/classification: the agent prototype's classifiers.  A category  *)
(* is a string of characters; a reason is a sequence of the pieces its     *)
(* f-string joins, so that "the reason contains X" is Contains(reason, X). *)
(***************************************************************************)
HEURISTIC_RULES ==
  <<[category |-> <<"P","A","S","S","W","O","R","D","_","R","E","S","E","T">>,
      keywords |-> <<<<"p","a","s","s","w","o","r","d">>, <<"r","e","s","e","t">>, <<"f","o","r","g","o","t">>>>,
      repr |-> "['password', 'reset', 'forgot']"],
    [category |-> <<"P","E","R","F","O","R","M","A","N","C","E","_","I","S","S","U","E">>,
      keywords |-> <<<<"s","l","o","w">>, <<"l","a","g">>, <<"f","r","e","e","z","e">>>>,
      repr |-> "['slow', 'lag', 'freeze']"],
    [category |-> <<"N","E","T","W","O","R","K","_","I","S","S","U","E">>,
      keywords |-> <<<<"n","e","t","w","o","r","k">>, <<"v","p","n">>, <<"c","o","n","n","e","c","t","i","o","n">>, <<"w","i","f","i">>>>,
      repr |-> "['network', 'vpn', 'connection', 'wifi']"],
    [category |-> <<"A","P","P","L","I","C","A","T","I","O","N","_","E","R","R","O","R">>,
      keywords |-> <<<<"e","r","r","o","r">>, <<"c","r","a","s","h">>, <<"b","u","g">>>>,
      repr |-> "['error', 'crash', 'bug']"]>>

\* an exception that leaves a function
Raised == [raised |-> TRUE]

\* HeuristicClassifier.classify: the first rule, in dict order, with a keyword in the text
RECURSIVE FirstRule(_, _)
FirstRule(text_lower, n) ==
  IF n > Len(HEURISTIC_RULES) THEN 0
  ELSE IF \E k \in 1..Len(HEURISTIC_RULES[n].keywords) :
            Contains(text_lower, HEURISTIC_RULES[n].keywords[k])
         THEN n
         ELSE FirstRule(text_lower, n + 1)

HeuristicClassify(text) ==
  LET n == FirstRule(Lower(text), 1)
  IN IF n # 0
       THEN [category |-> HEURISTIC_RULES[n].category,
             confidence |-> 800,
             reason |-> <<"Matched heuristic keywords: ", HEURISTIC_RULES[n].repr>>]
       ELSE [category |-> <<"U","N","K","N","O","W","N">>,
             confidence |-> 200,
             reason |-> <<"No heuristic rule matched">>]

\* JSON values of the scorer's reply
JNum(n) == [t |-> "num", n |-> n, s |-> <<>>]
JStr(s) == [t |-> "str", n |-> 0, s |-> s]
JNull == [t |-> "null", n |-> 0, s |-> <<>>]

\* float(x): a number converts; a string that is no numeral, and null, raise
FloatRaises(x) == x.t # "num"
Float(x) == x.n

\* the body of the try block of LLMClassifier.classify, for the reply llm of
\* client.chat.completions.create: [raised |-> TRUE] or the result
LLMTry(llm) ==
  IF llm.kind = "request_failed" THEN Raised          \* create() raises
  ELSE IF llm.kind = "unreadable" THEN Raised         \* choices[0].message["content"] raises
  ELSE IF llm.kind = "invalid_json" THEN Raised       \* json.loads raises
  ELSE IF llm.kind = "not_object" THEN Raised         \* parsed.get raises
  ELSE LET parsed == llm.parsed
           confidence == Get(parsed, "confidence", JNum(500))
       IN IF FloatRaises(confidence) THEN Raised
          ELSE [category |-> Get(parsed, "category", JStr(<<"O","T","H","E","R">>)).s,
                confidence |-> Float(confidence),
                reason |-> Get(parsed, "reason", JStr(<<"LLM decision">>)).s]

\* the scorer without its except clause: what the try block raises leaves it
LLMClassifyUncaught(cl, llm) ==
  IF cl = None THEN Absent ELSE LLMTry(llm)

\* LLMClassifier.classify: None without a client; except Exception: return None
LLMClassify(cl, llm) ==
  IF cl = None THEN Absent
  ELSE LET r == LLMTry(llm)
       IN IF r = Raised THEN Absent ELSE r

LOW_CONFIDENCE_THRESHOLD == 550

\* the fallback policy with an exclusive threshold
HybridClassifyExclusive(text, cl, llm) ==
  LET llm_result == LLMClassify(cl, llm)
  IN IF llm_result # Absent
       THEN IF llm_result.confidence > LOW_CONFIDENCE_THRESHOLD
              THEN llm_result
              ELSE LET heur == HeuristicClassify(text)
                   IN [category |-> heur.category,
                       confidence |-> heur.confidence,
                       reason |-> <<"LLM result too weak -> ">> \o llm_result.reason
                                    \o <<"; fallback: ">> \o heur.reason]
     ELSE HeuristicClassify(text)

\* HybridClassifier.classify
HybridClassify(text, cl, llm) ==
  LET llm_result == LLMClassify(cl, llm)
  IN IF llm_result = Raised THEN Raised
     ELSE IF llm_result # Absent
       THEN IF llm_result.confidence >= LOW_CONFIDENCE_THRESHOLD
              THEN llm_result
              ELSE LET heur == HeuristicClassify(text)
                   IN [category |-> heur.category,
                       confidence |-> heur.confidence,
                       reason |-> <<"LLM result too weak -> ">> \o llm_result.reason
                                    \o <<"; fallback: ">> \o heur.reason]
     ELSE HeuristicClassify(text)

(***************************************************************************)
(* src/src/agent/agent_core.py: SupportAgent.plan.                         *)
(***************************************************************************)
SupportAgentPlan(classification) ==
  LET category == Lower(classification.category)
  IN IF Contains(category, <<"p","a","s","s","w","o","r","d">>)
       THEN <<"reset_password">>
     ELSE IF Contains(category, <<"p","e","r","f","o","r","m","a","n","c","e">>) \/ Contains(category, <<"s","l","o","w">>)
       THEN <<"collect_logs", "restart_machine">>
     ELSE <<>>

(***************************************************************************)
(* src/src/rag.py: RAGKnowledgeBase.  TF-IDF and cosine_similarity are     *)
(* scikit-learn's; the stand-in for the embedding model gives the score,   *)
(* in hundredths, which round(score, 3) leaves as it is.                   *)
(***************************************************************************)
\* RAGKnowledgeBase.from_file: one SOPDocument per item of the JSON list
from_file(raw) ==
  [i \in 1..Len(raw) |->
     [id |-> raw[i].id,
      client_id |-> Get(raw[i], "client_id", "default"),
      title |-> raw[i].title,
      ticket_types |-> Get(raw[i], "ticket_types", {}),
      content |-> raw[i].content]]

\* cosine_similarity(q_vec, sub_matrix)[0][i]
cosine_similarity(query, content) == Similarity(embed_text(query), embed_text(content))

\* the loop of retrieve that filters docs by tenant and ticket type
FilteredDocs(docs, client_id, ticket_type) ==
  LET keep(doc) ==
        /\ ~(Truthy(client_id) /\ doc.client_id \notin {client_id, "default"})
        /\ ~(Truthy(ticket_type) /\ ticket_type \notin doc.ticket_types)
  IN SelectSeq(docs, keep)

\* RAGKnowledgeBase.retrieve: np.argsort(sims)[::-1][:top_k] puts documents of
\* equal score in any order; a score <= 0 is skipped
retrieve(docs, query, client_id, ticket_type, top_k) ==
  IF docs = <<>> THEN {<<>>}
  ELSE LET filtered_docs == FilteredDocs(docs, client_id, ticket_type)
           m == Len(filtered_docs)
           n == Min(top_k, m)
           sims(i) == cosine_similarity(query, filtered_docs[i].content)
           top_indices ==
             {s \in [1..n -> 1..m] :
                /\ \A i, j \in 1..n : i < j => s[i] # s[j] /\ sims(s[i]) >= sims(s[j])
                /\ \A r \in 1..m : (\A i \in 1..n : s[i] # r) =>
                                     \A i \in 1..n : sims(s[i]) >= sims(r)}
           positive(rank) == sims(rank) > 0
       IN {[k \in 1..Len(SelectSeq(s, positive)) |->
              [sop |-> filtered_docs[s[k]], score |-> sims(s[k])]] : s \in top_indices}

(***************************************************************************)
(* The AI service: one request at a time against the store.                *)
(***************************************************************************)
\* POST /classify
classify_ticket(ticket) ==
  /\ req' = [op |-> "classify", ticket |-> ticket]
  /\ res' = [status |-> 200,
             body |-> classify_ticket_intent(ticket.subject, ticket.description)]
  /\ UNCHANGED <<dbUp, sops, nextId, client, kb, process>>

\* POST /rag, with or without the intent parameter
rag_request(ticket, intent_param) ==
  /\ req' = [op |-> "rag", ticket |-> ticket, intent |-> intent_param]
  /\ res' \in retrieve_sops(sops, dbUp, ticket, intent_param)
  /\ UNCHANGED <<dbUp, sops, nextId, client, kb, process>>

\* POST /plan: the HTTPException retrieve_sops raises is not caught
generate_action_plan(ticket) ==
  /\ req' = [op |-> "plan", ticket |-> ticket]
  /\ LET classification == classify_ticket_intent(ticket.subject, ticket.description)
     IN \E rag_response \in retrieve_sops(sops, dbUp, ticket, classification.intent) :
          res' = IF rag_response.status # 200
                   THEN rag_response
                   ELSE [status |-> 200, body |-> PlanResponse(ticket, classification)]
  /\ UNCHANGED <<dbUp, sops, nextId, client, kb, process>>

\* the store becomes unreachable, or reachable again
StoreFails ==
  /\ req = Idle
  /\ dbUp
  /\ dbUp' = FALSE
  /\ UNCHANGED <<req, res, sops, nextId, client, kb, process>>

StoreRecovers ==
  /\ req = Idle
  /\ ~dbUp
  /\ dbUp' = TRUE
  /\ UNCHANGED <<req, res, sops, nextId, client, kb, process>>

\* the response is delivered; the service waits for the next request
Respond ==
  /\ req # Idle
  /\ req' = Idle
  /\ res' = Idle
  /\ UNCHANGED <<dbUp, sops, nextId, client, kb, process>>

Init ==
  /\ req = Idle
  /\ res = Idle
  /\ dbUp = TRUE
  /\ sops \in {{}, IngestAll(SampleSops, {}, 1)}
  /\ nextId = 1 + Cardinality(sops)
  /\ client = None
  /\ kb = <<>>
  /\ ServiceConstructed

\* a request is handled only when the previous response has been delivered
ClassifyRequest ==
  /\ req = Idle
  /\ \E ticket \in Tickets : classify_ticket(ticket)

RagRequest ==
  /\ req = Idle
  /\ \E ticket \in Tickets, intent_param \in Intent \cup {None} :
       rag_request(ticket, intent_param)

PlanRequest ==
  /\ req = Idle
  /\ \E ticket \in Tickets : generate_action_plan(ticket)

Next ==
  \/ ClassifyRequest
  \/ RagRequest
  \/ PlanRequest
  \/ StoreFails
  \/ StoreRecovers
  \/ Respond

Spec == Init /\ [][Next]_vars

(***************************************************************************)
(* Properties of the AI service (Spec).                                    *)
(***************************************************************************)
\* the response in hand is a Decision: POST /plan answered 200
PlanAnswered == req.op = "plan" /\ res.status = 200

\* the classification of the ticket of the request in hand
Classification == classify_ticket_intent(req.ticket.subject, req.ticket.description)

ManualInvestigation == Step(1, "Manual investigation required", 1800, TRUE)

\* C2: when the SOP index cannot be reached during POST /plan, the request is
\* still answered with a Decision whose steps are the intent's template and
\* whose risk level is that of the successful case; the failure is not
\* surfaced to the caller.
PlanSurvivesIndexFailure ==
  (req.op = "plan" /\ ~dbUp) =>
    /\ res.status = 200
    /\ res.body.action_steps = PlanSteps(Classification.intent)
    /\ res.body.risk_level = RiskLevel(Classification)

\* a plan request made while the index is unreachable
PlanDuringIndexFailure == req.op = "plan" /\ ~dbUp /\ res.status = 500

\* C3: requires_human_approval is true whenever a step of the Decision
\* requires approval or the classification is not automatable, and false only
\* when no step requires approval and the classification is automatable.
ApprovalRule ==
  PlanAnswered =>
    LET steps == res.body.action_steps
        anyStep == \E i \in 1..Len(steps) : steps[i].requires_approval
    IN /\ (anyStep \/ ~Classification.is_automatable) => res.body.requires_human_approval
       /\ ~res.body.requires_human_approval => (~anyStep /\ Classification.is_automatable)

\* an automatable ticket whose plan needs approval because of one of its steps
ApprovalForcedByStep ==
  /\ PlanAnswered
  /\ Classification.is_automatable
  /\ \E i \in 1..Len(res.body.action_steps) : res.body.action_steps[i].requires_approval
  /\ res.body.requires_human_approval

\* the estimated times of steps 1..n, added up
RECURSIVE SumOfTimes(_, _)
SumOfTimes(steps, n) ==
  IF n = 0 THEN 0 ELSE SumOfTimes(steps, n - 1) + steps[n].estimated_time_seconds

\* C4: the Decision's total estimated time is the sum of estimated_time_seconds
\* over exactly the steps it returns; for the single-step fallback it is 1800.
TotalTimeIsSumOfSteps ==
  PlanAnswered =>
    LET steps == res.body.action_steps
    IN /\ res.body.total_estimated_time = SumOfTimes(steps, Len(steps))
       /\ steps = <<ManualInvestigation>> => res.body.total_estimated_time = 1800

\* a six-step plan, whose total is more than any one of its steps
TotalOfSeveralSteps ==
  /\ PlanAnswered
  /\ Len(res.body.action_steps) = 6
  /\ res.body.total_estimated_time = 1440

\* C5: confidence below 0.6 or intent UNKNOWN gives risk level HIGH whatever
\* is_automatable is; otherwise the level is LOW exactly when the
\* classification is automatable with confidence above 0.85, and MEDIUM in
\* every other case.
RiskLevelRule ==
  PlanAnswered =>
    LET c == Classification
        risk_level == res.body.risk_level
    IN IF c.confidence < 600 \/ c.intent = "UNKNOWN"
         THEN risk_level = "HIGH"
         ELSE /\ risk_level = "LOW" <=> (c.is_automatable /\ c.confidence > 850)
              /\ risk_level # "LOW" => risk_level = "MEDIUM"

\* a ticket of unknown intent, planned at HIGH risk
HighRiskForUnknown ==
  /\ PlanAnswered
  /\ Classification.intent = "UNKNOWN"
  /\ res.body.risk_level = "HIGH"

\* POST /plan gives an intent without a template the one manual step
FallbackIsManualInvestigation ==
  (PlanAnswered /\ Classification.intent \notin DOMAIN action_plans) =>
    res.body.action_steps = <<ManualInvestigation>>

\* no keyword of classification_rules occurs in the text of the ticket
NoRuleKeyword(ticket) ==
  LET text == Lower(ticket.subject \o <<" ">> \o ticket.description)
  IN \A n \in 1..Len(classification_rules) :
       \A k \in 1..Len(classification_rules[n].keywords) :
         ~Contains(text, classification_rules[n].keywords[k])

\* POST /classify answers a ticket without keywords with UNKNOWN at 0.0, not automatable
UnknownWithoutRuleKeyword ==
  (req.op = "classify" /\ NoRuleKeyword(req.ticket)) =>
    /\ res.status = 200
    /\ res.body = [intent |-> "UNKNOWN", confidence |-> 0, is_automatable |-> FALSE]

\* POST /classify never answers with a confidence outside [0,1]
ServiceConfidenceWithinUnitInterval ==
  (req.op = "classify") => res.body.confidence \in 0..1000

\* the lowercased text of the ticket in hand
TicketText == Lower(req.ticket.subject \o <<" ">> \o req.ticket.description)

\* for each rule, the number of its keywords that occur in the text
KeywordsFound(text) ==
  [n \in 1..Len(classification_rules) |->
     Cardinality({k \in 1..Len(classification_rules[n].keywords) :
                    Contains(text, classification_rules[n].keywords[k])})]

\* for each rule, the confidence the code computes from that number (0: no match)
ComputedConfidence(found) ==
  [n \in DOMAIN found |->
     IF found[n] = 0 THEN 0 ELSE RuleConfidence(classification_rules[n], found[n])]

\* the matched rules whose computed confidence no rule exceeds
TopRules(found, computed) ==
  {n \in DOMAIN found : found[n] > 0 /\ \A o \in DOMAIN found : computed[n] >= computed[o]}

\* C11: of the intents with a matching keyword the one with the highest
\* computed confidence is returned, and of several with the same highest
\* confidence the one declared first in the rule table.
HighestConfidenceFirstDeclared ==
  (req.op = "classify") =>
    LET found == KeywordsFound(TicketText)
        computed == ComputedConfidence(found)
        top == TopRules(found, computed)
    IN top # {} =>
         LET first == CHOOSE n \in top : \A o \in top : n <= o
         IN /\ res.body.intent = classification_rules[first].intent
            /\ res.body.confidence = computed[first]

\* two intents share the highest confidence and the first declared was returned
TieAtTheTop ==
  /\ req.op = "classify"
  /\ LET found == KeywordsFound(TicketText)
         top == TopRules(found, ComputedConfidence(found))
     IN /\ Cardinality(top) >= 2
        /\ \E n \in top : /\ res.body.intent = classification_rules[n].intent
                          /\ \A o \in top : n <= o

\* C12: is_automatable is true if and only if the intent is one of
\* PASSWORD_RESET, SYSTEM_RESTART, BACKUP_VERIFICATION, PRINTER_ISSUE and the
\* confidence is at least 0.75; it is false for UNKNOWN and for every other
\* intent at any confidence.
AutomatableRule ==
  (req.op = "classify") =>
    /\ res.body.is_automatable <=>
         /\ res.body.intent \in {"PASSWORD_RESET", "SYSTEM_RESTART",
                                 "BACKUP_VERIFICATION", "PRINTER_ISSUE"}
         /\ res.body.confidence >= 750
    /\ res.body.intent = "UNKNOWN" => ~res.body.is_automatable

\* an intent outside the automatable set, classified with high confidence
ConfidentButNotAutomatable ==
  /\ req.op = "classify"
  /\ res.body.intent \in {"VPN_ACCESS", "EMAIL_ISSUE"}
  /\ res.body.confidence >= 750
  /\ ~res.body.is_automatable

(***************************************************************************)
(* The agent prototype: HybridClassifier.classify, then SupportAgent.plan  *)
(* on its result.                                                          *)
(***************************************************************************)
\* replies of the scorer to one request
LLMCategories == {<<"P","A","S","S","W","O","R","D","_","R","E","S","E","T">>, <<"O","T","H","E","R">>}

LLMConfidences == {-200, 400, 549, 550, 900, 1700}

JMissing == [t |-> "missing", n |-> 0, s |-> <<>>]

\* the JSON object with these members; a JMissing member is not in the object
JObject(category, confidence, reason) ==
  LET member == [k \in {"category", "confidence", "reason"} |->
                   CASE k = "category" -> category
                     [] k = "confidence" -> confidence
                     [] k = "reason" -> reason]
  IN [k \in {k \in DOMAIN member : member[k] # JMissing} |-> member[k]]

LLMReplies ==
  {[kind |-> k, parsed |-> <<>>] : k \in {"request_failed", "unreadable", "invalid_json", "not_object"}}
  \cup
  {[kind |-> "object", parsed |-> JObject(category, confidence, reason)] :
     category \in {JStr(c) : c \in LLMCategories} \cup {JMissing},
     confidence \in {JNum(n) : n \in LLMConfidences}
                      \cup {JStr(<<"h","i","g","h">>), JNull, JMissing},
     reason \in {JStr(<<"The user cannot sign in">>), JMissing}}

\* without a client no request is made
NoReply == [kind |-> "no_request", parsed |-> <<>>]

AgentTexts == {Join(ps) : ps \in PhraseSeqs(MaxPhrases)}

\* `client` is set when llm_classifier.py is imported: OpenAI() or, if that raises, None
InitAgent ==
  /\ req = Idle
  /\ res = Idle
  /\ dbUp = TRUE
  /\ sops = {}
  /\ nextId = 1
  /\ client \in {None, "OpenAI"}
  /\ kb = <<>>
  /\ NoEmbeddingService

HybridRequest ==
  /\ req = Idle
  /\ \E text \in AgentTexts, llm \in (IF client = None THEN {NoReply} ELSE LLMReplies) :
       LET classification == HybridClassify(text, client, llm)
       IN /\ req' = [op |-> "hybrid", text |-> text, llm |-> llm]
          /\ res' = IF classification = Raised THEN Raised
                    ELSE [classification |-> classification]
  /\ UNCHANGED <<dbUp, sops, nextId, client, kb, process>>

\* the classification goes on to the planner
AgentPlan ==
  /\ req # Idle
  /\ req.op = "hybrid"
  /\ res # Raised
  /\ "actions" \notin DOMAIN res
  /\ res' = [classification |-> res.classification,
             actions |-> SupportAgentPlan(res.classification)]
  /\ UNCHANGED <<req, dbUp, sops, nextId, client, kb, process>>

NextAgent ==
  \/ HybridRequest
  \/ AgentPlan
  \/ Respond

SpecAgent == InitAgent /\ [][NextAgent]_vars

\* C20: for every rule with matches >= 1 keywords in the text the confidence
\* is min(base + 0.05 * (matches - 1), 0.98), as the float the sum gives (the
\* decimal or one ulp above it): it does not decrease from one number of
\* matches to the next, it is the base at one match and it never exceeds
\* 0.98; the classification answers with the confidence of its rule.
ConfidenceGrowsToCap ==
  (req.op = "classify") =>
    LET found == KeywordsFound(TicketText)
        computed == ComputedConfidence(found)
        base(n) == classification_rules[n].confidence_base
        decimal(n) == Min(base(n) + 50 * (found[n] - 1), 980)
    IN /\ \A n \in DOMAIN found : found[n] >= 1 =>
            /\ computed[n] \in {decimal(n), decimal(n) + 1}
            /\ computed[n] <= 980
            /\ found[n] = 1 => computed[n] = base(n)
            /\ \A m \in 1..(found[n] - 1) :
                 RuleConfidence(classification_rules[n], m)
                   <= RuleConfidence(classification_rules[n], m + 1)
       /\ res.body.intent # "UNKNOWN" =>
            \E n \in DOMAIN found : /\ found[n] >= 1
                                    /\ classification_rules[n].intent = res.body.intent
                                    /\ res.body.confidence = computed[n]

\* three keywords of a rule found: the sum passes 0.98 and the answer is 0.98
CapReached ==
  /\ req.op = "classify"
  /\ res.body.confidence = 980
  /\ \E n \in 1..Len(classification_rules) :
       /\ classification_rules[n].intent = res.body.intent
       /\ KeywordsFound(TicketText)[n] >= 3

\* C28: every plan POST /plan answers with has requires_human_approval true:
\* each intent's template and the fallback plan hold a step that requires
\* approval, whatever the classification.
ApprovalAlwaysRequired ==
  /\ \A intent \in Intent :
       \E i \in 1..Len(PlanSteps(intent)) : PlanSteps(intent)[i].requires_approval
  /\ PlanAnswered =>
       /\ res.body.requires_human_approval
       /\ \E i \in 1..Len(res.body.action_steps) :
            res.body.action_steps[i].requires_approval

\* a plan for an automatable classification without a template
AutomatableWithoutTemplate ==
  /\ PlanAnswered
  /\ Classification.is_automatable
  /\ res.body.action_steps = <<ManualInvestigation>>
  /\ res.body.requires_human_approval

EmptyTicketRejected ==
  (/\ req.op \in {"classify", "rag", "plan"}
   /\ req.ticket.subject = <<>>
   /\ req.ticket.description = <<>>) => res.status # 200

(***************************************************************************)
(* Properties of the agent prototype (SpecAgent).                          *)
(***************************************************************************)
\* HybridClassifier.classify has answered the request in hand
HybridAnswered == req.op = "hybrid" /\ "classification" \in DOMAIN res

\* what the external scorer and the deterministic classifier give for the request in hand
External == LLMClassify(client, req.llm)
Deterministic == HeuristicClassify(req.text)

\* C6: an intent without a plan template gets the single step "Manual
\* investigation required"; no planner of the repository returns an empty
\* list of steps, SupportAgent.plan included.
PlannerNeverReturnsNoSteps ==
  /\ "actions" \in DOMAIN res => res.actions # <<>>
  /\ (req.op = "plan" /\ res.status = 200) => res.body.action_steps # <<>>

\* SupportAgent.plan has run on a category it has no rule for
PlannedWithoutRule ==
  /\ "actions" \in DOMAIN res
  /\ res.classification.category = <<"U","N","K","N","O","W","N">>

\* C7: an external result with confidence >= 0.55 (0.55 included) is returned
\* unchanged; when it is absent or weaker, the category and the confidence are
\* the deterministic classifier's, and when it is present but weak the
\* rationale holds the external reason and the deterministic reason.
HybridFallbackPolicy ==
  HybridAnswered =>
    LET out == res.classification
    IN IF External # Absent /\ External.confidence >= 550
         THEN out = External
         ELSE /\ out.category = Deterministic.category
              /\ out.confidence = Deterministic.confidence
              /\ External # Absent =>
                   /\ Contains(out.reason, External.reason)
                   /\ Contains(out.reason, Deterministic.reason)

\* the external scorer answers exactly 0.55 and differs from the deterministic result
ExternalAtThreshold ==
  /\ HybridAnswered
  /\ External # Absent
  /\ External.confidence = 550
  /\ External.category # Deterministic.category
  /\ res.classification = External

\* the external scorer cannot be used for the request in hand
ExternalFails ==
  \/ client = None
  \/ req.llm.kind \in {"request_failed", "unreadable", "invalid_json", "not_object"}
  \/ /\ req.llm.kind = "object"
     /\ "confidence" \in DOMAIN req.llm.parsed
     /\ req.llm.parsed.confidence.t # "num"

\* C8: the external scorer never raises: without a client, on a failed
\* request and on a reply that cannot be parsed it returns None, and
\* HybridClassifier.classify returns a classification for every text and
\* every outcome of the scorer.
ScorerNeverRaises ==
  (req.op = "hybrid") =>
    /\ res # Raised
    /\ "classification" \in DOMAIN res
    /\ External # Raised
    /\ ExternalFails =>
         /\ External = Absent
         /\ res.classification = Deterministic

\* the request to the scorer failed and the deterministic result was returned
ScorerRequestFailed ==
  /\ HybridAnswered
  /\ client # None
  /\ req.llm.kind = "request_failed"
  /\ res.classification = Deterministic

\* C9: a classification that leaves HybridClassifier.classify has a confidence
\* within [0,1]; a confidence the external scorer reports outside [0,1] is
\* never returned as it is.
ConfidenceWithinUnitInterval ==
  HybridAnswered =>
    /\ res.classification.confidence >= 0
    /\ res.classification.confidence <= 1000

\* the external scorer reported 1.7
ExternalReportsTooMuch ==
  /\ HybridAnswered
  /\ External # Absent
  /\ External.confidence = 1700

\* no keyword of HEURISTIC_RULES occurs in the text
NoHeuristicKeyword(text) ==
  \A n \in 1..Len(HEURISTIC_RULES) : \A k \in 1..Len(HEURISTIC_RULES[n].keywords) :
    ~Contains(Lower(text), HEURISTIC_RULES[n].keywords[k])

\* C10: a text in which no keyword occurs is classified, without an error, as
\* UNKNOWN with confidence exactly 0.0, by HeuristicClassifier.classify as by
\* classify_ticket_intent.
NoKeywordGivesUnknownAtZero ==
  (HybridAnswered /\ External = Absent /\ NoHeuristicKeyword(req.text)) =>
    /\ res.classification.category = <<"U","N","K","N","O","W","N">>
    /\ res.classification.confidence = 0

\* the deterministic classifier of the prototype was given a text without keywords
HeuristicWithoutKeyword ==
  /\ HybridAnswered
  /\ External = Absent
  /\ req.text # <<>>
  /\ NoHeuristicKeyword(req.text)

(***************************************************************************)
(* The knowledge base of the prototype: built once from a file, then       *)
(* queried.                                                                *)
(***************************************************************************)
\* items of sops.json: with and without "client_id"
RawItems ==
  {[id |-> "SOP-1", client_id |-> "tenant1", title |-> "Password Reset Procedure",
    ticket_types |-> {"password_reset"}, content |-> <<"f","o","r","g","o","t"," ","m","y"," ","p","a","s","s","w","o","r","d">>],
   [id |-> "SOP-2", client_id |-> "tenant2", title |-> "VPN Access Setup",
    ticket_types |-> {"vpn_access"}, content |-> <<"V","P","N">>],
   [id |-> "SOP-3", title |-> "Password Reset Procedure",
    ticket_types |-> {"password_reset"}, content |-> <<"w","i","f","i">>],
   [id |-> "SOP-4", client_id |-> "tenant2", title |-> "Printer",
    content |-> <<"e","m","a","i","l">>]}

\* documents in the knowledge base
MaxKbDocs == 2

\* candidates for top_k
MaxTopK == 2

Queries == {<<"V","P","N">>, <<"w","i","f","i">>, <<"e","m","a","i","l">>}

InitKb ==
  /\ req = Idle
  /\ res = Idle
  /\ dbUp = TRUE
  /\ sops = {}
  /\ nextId = 1
  /\ client = None
  /\ kb \in {from_file(raw) : raw \in UNION {[1..k -> RawItems] : k \in 0..MaxKbDocs}}
  /\ NoEmbeddingService

KbRetrieve ==
  /\ req = Idle
  /\ \E query \in Queries, client_id \in Tenants \cup {None},
        ticket_type \in Categories \cup {None}, top_k \in 1..MaxTopK :
       /\ req' = [op |-> "kb_retrieve", query |-> query, client_id |-> client_id,
                  ticket_type |-> ticket_type, top_k |-> top_k]
       /\ \E results \in retrieve(kb, query, client_id, ticket_type, top_k) :
            res' = [results |-> results]
  /\ UNCHANGED <<dbUp, sops, nextId, client, kb, process>>

NextKb ==
  \/ KbRetrieve
  \/ Respond

SpecKb == InitKb /\ [][NextKb]_vars

(***************************************************************************)
(* The SOP index: ingests, tenant deletes and searches against the table.  *)
(***************************************************************************)
\* rows the serial of the table hands out
MaxRows == 2

\* similarity thresholds of a search, in hundredths
Thresholds == {30, 50}

TitleOf(category) ==
  IF category = "password_reset" THEN "Password Reset Procedure" ELSE "VPN Access Setup"

InitIndex ==
  /\ req = Idle
  /\ res = Idle
  /\ dbUp = TRUE
  /\ sops = {}
  /\ nextId = 1
  /\ client = None
  /\ kb = <<>>
  /\ ServiceConstructed

IngestSop ==
  /\ req = Idle
  /\ \E tenant_id \in Tenants, category \in Categories, content \in Docs :
       \E out \in ingest_sop(sops, nextId, dbUp, tenant_id, TitleOf(category),
                             content, category) :
         /\ out.nid <= MaxRows + 1
         /\ req' = [op |-> "ingest_sop", tenant_id |-> tenant_id,
                    title |-> TitleOf(category), content |-> content,
                    category |-> category]
         /\ res' = IF out.raised THEN Raised ELSE [chunks |-> out.chunks]
         /\ sops' = out.table
         /\ nextId' = out.nid
  /\ UNCHANGED <<dbUp, client, kb, process>>

DeleteTenantSops ==
  /\ req = Idle
  /\ \E tenant_id \in Tenants :
       LET out == delete_tenant_sops(sops, dbUp, tenant_id)
       IN /\ req' = [op |-> "delete_tenant_sops", tenant_id |-> tenant_id]
          /\ res' = IF out.raised THEN Raised ELSE [deleted |-> out.deleted]
          /\ sops' = out.table
  /\ UNCHANGED <<dbUp, nextId, client, kb, process>>

Search ==
  /\ req = Idle
  /\ \E query \in Queries, tenant_id \in Tenants, top_k \in 1..MaxTopK,
        category_filter \in Categories \cup {None},
        similarity_threshold \in Thresholds :
       /\ req' = [op |-> "search", query |-> query, tenant_id |-> tenant_id,
                  top_k |-> top_k, category_filter |-> category_filter,
                  similarity_threshold |-> similarity_threshold]
       /\ \E out \in search(sops, dbUp, query, tenant_id, top_k, category_filter,
                            similarity_threshold) :
            res' = IF out.raised THEN Raised ELSE [rows |-> out.rows]
  /\ UNCHANGED <<dbUp, sops, nextId, client, kb, process>>

HybridSearch ==
  /\ req = Idle
  /\ \E query \in Queries, tenant_id \in Tenants, top_k \in 1..MaxTopK,
        category \in Categories :
       /\ req' = [op |-> "hybrid_search", query |-> query, tenant_id |-> tenant_id,
                  top_k |-> top_k, category |-> category]
       /\ \E out \in hybrid_search(sops, dbUp, query, tenant_id, category, top_k) :
            res' = IF out.raised THEN Raised ELSE [rows |-> out.rows]
  /\ UNCHANGED <<dbUp, sops, nextId, client, kb, process>>

\* A caller replaces the SOPs of a tenant with the two calls the ingester
\* offers: delete_tenant_sops commits its DELETE, then ingest_sop commits
\* its INSERT; every other transaction may run between the two commits.
\* The replacement starts once the previous answer has been delivered.
ReplaceDelete ==
  /\ replacing = Idle
  /\ req = Idle
  /\ \E tenant_id \in Tenants, category \in {"password_reset"}, content \in {DocShort} :
       LET out == delete_tenant_sops(sops, dbUp, tenant_id)
       IN /\ ~out.raised
          /\ out.deleted > 0
          /\ replacing' = [op |-> "replace", tenant_id |-> tenant_id, old |-> sops,
                           title |-> TitleOf(category), content |-> content,
                           category |-> category]
          /\ sops' = out.table
  /\ UNCHANGED <<req, res, dbUp, nextId, client, kb, embedding_service, instances,
                 handlers>>

ReplaceIngest ==
  /\ replacing # Idle
  /\ \E out \in ingest_sop(sops, nextId, dbUp, replacing.tenant_id, replacing.title,
                           replacing.content, replacing.category) :
       /\ out.nid <= MaxRows + 1
       /\ sops' = out.table
       /\ nextId' = out.nid
  /\ replacing' = Idle
  /\ UNCHANGED <<req, res, dbUp, client, kb, embedding_service, instances, handlers>>

\* the dictionaries of a batch: complete ones, one without 'title' and one
\* without 'tenant_id'
BatchItems ==
  {[tenant_id |-> t, title |-> TitleOf("password_reset"), content |-> DocShort,
    category |-> "password_reset"] : t \in Tenants}
  \cup {[tenant_id |-> "tenant1", content |-> DocShort, category |-> "password_reset"],
        [title |-> TitleOf("password_reset"), content |-> DocShort,
         category |-> "password_reset"]}

MaxBatch == 2

IngestBatch ==
  /\ req = Idle
  /\ \E batch \in UNION {[1..n -> BatchItems] : n \in 0..MaxBatch} :
       \E out \in ingest_batch(sops, nextId, dbUp, batch) :
         /\ out.nid <= MaxRows + 1
         /\ req' = [op |-> "ingest_batch", sops |-> batch]
         /\ res' = IF out.raised THEN Raised ELSE out.stats
         /\ sops' = out.table
         /\ nextId' = out.nid
  /\ UNCHANGED <<dbUp, client, kb, process>>

NextIndex ==
  \/ IngestSop
  \/ IngestBatch
  \/ ReplaceDelete
  \/ ReplaceIngest
  \/ DeleteTenantSops
  \/ Search
  \/ HybridSearch
  \/ StoreFails
  \/ StoreRecovers
  \/ Respond

SpecIndex == InitIndex /\ [][NextIndex]_vars

(***************************************************************************)
(* Properties of the index (SpecIndex).                                    *)
(***************************************************************************)
\* C15: ingest_batch never aborts on the failure of an item, an item without
\* 'title' or 'tenant_id' included: it returns statistics with
\* successful + failed = total_sops = the number of items.
BatchNeverAborts ==
  (req.op = "ingest_batch") =>
    /\ res # Raised
    /\ res.total_sops = Len(req.sops)
    /\ res.successful + res.failed = res.total_sops

\* C26: after any ingests and tenant deletes the rows of a logical SOP
\* (tenant_id, title) carry the chunk_index values 0..n-1, each once:
\* ingesting the same (tenant_id, title) again replaces the earlier rows.
ChunkIndexesDense ==
  \A r \in sops :
    LET same == {x \in sops : x.tenant_id = r.tenant_id /\ x.title = r.title}
    IN {x.chunk_index : x \in same} = 0..(Cardinality(same) - 1)

\* C16: a query for a tenant that runs while the tenant's SOPs are being
\* replaced is answered from the complete old rows or from the complete new
\* rows of the tenant, never from an empty, partial or mixed table.
ReplacementIsAtomic ==
  (/\ replacing # Idle
   /\ req.op = "search"
   /\ req.tenant_id = replacing.tenant_id
   /\ res # Raised) =>
    LET new == {r \in replacing.old : r.tenant_id # replacing.tenant_id}
               \cup IngestRecords(nextId, replacing.tenant_id, replacing.title,
                                  replacing.content, replacing.category)
        answers(table) ==
          {out.rows : out \in search(table, TRUE, req.query, req.tenant_id, req.top_k,
                                     req.category_filter, req.similarity_threshold)}
    IN res.rows \in answers(replacing.old) \cup answers(new)

(***************************************************************************)
(* POST /rag against a filled index: more rows of a tenant than a search   *)
(* returns, with similarities on both sides of the two floors.             *)
(***************************************************************************)
\* one-paragraph SOPs of 4 to 10 characters: one chunk each
ManySops ==
  [i \in 1..8 |->
     CASE i <= 4 -> [tenant_id |-> "tenant1", title |-> "Password Reset Procedure",
                     category |-> "password_reset", content |-> Rep("a", 3 + i)]
       [] i <= 7 -> [tenant_id |-> "tenant1", title |-> "VPN Access Setup",
                     category |-> "vpn_access", content |-> Rep("b", 3 + i)]
       [] OTHER  -> [tenant_id |-> "tenant2", title |-> "Password Reset Procedure",
                     category |-> "password_reset", content |-> Rep("c", 5)]]

\* tickets whose queries have every length modulo NumVectors
ProbeTickets ==
  {[ticketId |-> "T-1", tenantId |-> t, subject |-> subject, description |-> <<>>] :
      t \in Tenants,
      subject \in Queries \cup {<<"f","o","r","g","o","t"," ","m","y"," ","p","a","s","s","w","o","r","d">>}}

InitRag ==
  /\ req = Idle
  /\ res = Idle
  /\ dbUp = TRUE
  /\ sops = IngestAll(ManySops, {}, 1)
  /\ nextId = 1 + Cardinality(sops)
  /\ client = None
  /\ kb = <<>>
  /\ ServiceConstructed

RagProbe ==
  /\ req = Idle
  /\ \E ticket \in ProbeTickets, intent_param \in Intent \cup {None} :
       rag_request(ticket, intent_param)

NextRag ==
  \/ RagProbe
  \/ StoreFails
  \/ StoreRecovers
  \/ Respond

SpecRag == InitRag /\ [][NextRag]_vars

\* the rows of the table a search for the tenant with this filter and floor may return
Qualifying(query, tenant_id, category, floor) ==
  {r \in sops : /\ r.tenant_id = tenant_id
                /\ category # None => r.category = category
                /\ Similarity(r.embedding, embed_text(query)) >= floor}

\* results are the best `most` qualifying rows, by descending similarity
BestOf(results, query, qualifying, most) ==
  LET sim(r) == Similarity(r.embedding, embed_text(query))
      returned == {r \in qualifying : \E i \in 1..Len(results) : results[i].sop_id = r.id}
  IN /\ Len(results) = Min(most, Cardinality(qualifying))
     /\ Cardinality(returned) = Len(results)
     /\ \A i \in 1..Len(results) : \E r \in qualifying :
          r.id = results[i].sop_id /\ results[i].similarity = sim(r)
     /\ \A i, j \in 1..Len(results) : i < j => results[i].similarity >= results[j].similarity
     /\ \A r \in qualifying \ returned : \A i \in 1..Len(results) :
          results[i].similarity >= sim(r)

\* C13: for an intent of the intent-to-category table the index is queried
\* with that category as filter, floor 0.3 and at most 3 results; for every
\* other intent, UNKNOWN included, with no filter, floor 0.5 and at most 5
\* results; the query text is subject + " " + description.
RetrievalParameters ==
  (req.op = "rag" /\ res.status = 200) =>
    LET intent == IF req.intent = None THEN Classification.intent ELSE req.intent
        query == req.ticket.subject \o <<" ">> \o req.ticket.description
        tenant_id == req.ticket.tenantId
        category == CASE intent = "PASSWORD_RESET" -> "password_reset"
                      [] intent = "SYSTEM_RESTART" -> "system_restart"
                      [] intent = "VPN_ACCESS" -> "vpn_access"
                      [] intent = "BACKUP_VERIFICATION" -> "backup_verification"
                      [] OTHER -> None
    IN /\ res.body.query = query
       /\ IF category # None
            THEN BestOf(res.body.results, query,
                        Qualifying(query, tenant_id, category, 30), 3)
            ELSE BestOf(res.body.results, query,
                        Qualifying(query, tenant_id, None, 50), 5)

\* a filtered search that returned 3 rows, one of them below 0.5, and left one out
FilteredSearchCut ==
  /\ req.op = "rag"
  /\ res.status = 200
  /\ req.intent = "PASSWORD_RESET"
  /\ Len(res.body.results) = 3
  /\ \E i \in 1..3 : res.body.results[i].similarity < 50

(***************************************************************************)
(* DocumentChunker on short texts with small chunk sizes (SpecChunk).      *)
(***************************************************************************)
\* paragraphs of one to five characters, one of them two sentences
ChunkParagraphs ==
  {<<"a">>, <<"b", "b", "b">>, <<"c", "c", "c", "c", "c">>, <<"d", ".", " ", "e">>}

\* paragraphs in a text
MaxParagraphs == 3

RECURSIVE JoinParagraphs(_)
JoinParagraphs(ps) ==
  IF ps = <<>> THEN <<>>
  ELSE IF Len(ps) = 1 THEN ps[1]
  ELSE ps[1] \o <<"\n", "\n">> \o JoinParagraphs(Tail(ps))

ChunkTexts ==
  {JoinParagraphs(ps) : ps \in UNION {[1..n -> ChunkParagraphs] : n \in 0..MaxParagraphs}}

\* DocumentChunker(chunk_size, overlap) configurations
ChunkSizes == {4, 6}
Overlaps == {0, 2}

ChunkByParagraphs ==
  /\ req = Idle
  /\ \E text \in ChunkTexts, size \in ChunkSizes, over \in Overlaps :
       /\ req' = [op |-> "chunk_by_paragraphs", text |-> text, chunk_size |-> size,
                  overlap |-> over]
       /\ res' = [chunks |-> chunk_by_paragraphs(text, size, over)]
  /\ UNCHANGED <<dbUp, sops, nextId, client, kb, process>>

ChunkBySentences ==
  /\ req = Idle
  /\ \E text \in ChunkTexts, size \in ChunkSizes, over \in Overlaps :
       /\ req' = [op |-> "chunk_by_sentences", text |-> text, chunk_size |-> size,
                  overlap |-> over]
       /\ res' = [chunks |-> chunk_by_sentences(text, size)]
  /\ UNCHANGED <<dbUp, sops, nextId, client, kb, process>>

NextChunk ==
  \/ ChunkByParagraphs
  \/ ChunkBySentences
  \/ Respond

SpecChunk == InitIndex /\ [][NextChunk]_vars

\* the non-empty stripped pieces of a split
Units(pieces) == {Strip(pieces[i]) : i \in 1..Len(pieces)} \ {<<>>}

\* C19: every chunk is at most chunk_size long unless it is one paragraph
\* (or sentence) that alone is longer, and the full text of every non-empty
\* paragraph appears in some chunk.
ChunksWithinSize ==
  (req.op \in {"chunk_by_paragraphs", "chunk_by_sentences"}) =>
    LET paragraphs == Units(ReSplit(req.text, 1))
        units == IF req.op = "chunk_by_paragraphs" THEN paragraphs
                 ELSE Units(ReSplitSentences(req.text, 1))
    IN /\ \A i \in 1..Len(res.chunks) :
            \/ Len(res.chunks[i]) <= req.chunk_size
            \/ res.chunks[i] \in units
       /\ \A para \in paragraphs :
            \E i \in 1..Len(res.chunks) : Contains(res.chunks[i], para)

(***************************************************************************)
(* The index used by one caller at a time (SpecStore): the ingester and    *)
(* the retriever against an empty table or the table of ManySops.          *)
(***************************************************************************)
InitStore ==
  /\ req = Idle
  /\ res = Idle
  /\ dbUp = TRUE
  /\ sops \in {{}, IngestAll(ManySops, {}, 1)}
  /\ nextId = 1 + Cardinality(sops)
  /\ client = None
  /\ kb = <<>>
  /\ ServiceConstructed

NextStore ==
  \/ IngestSop
  \/ IngestBatch
  \/ DeleteTenantSops
  \/ Search
  \/ HybridSearch
  \/ StoreFails
  \/ StoreRecovers
  \/ Respond

SpecStore == InitStore /\ [][NextStore]_vars

\* the rows of the tenant that carry the category and reach the floor
Matching(query, tenant_id, category, floor) ==
  {r \in sops : /\ r.tenant_id = tenant_id
                /\ r.category = category
                /\ Similarity(r.embedding, embed_text(query)) >= floor}

\* rows are the `most` best of the candidates, none twice
BestRows(rows, query, candidates, most) ==
  LET sim(r) == Similarity(r.embedding, embed_text(query))
      returned == {r \in candidates : \E i \in 1..Len(rows) : rows[i].id = r.id}
  IN /\ Len(rows) = Min(most, Cardinality(candidates))
     /\ Cardinality(returned) = Len(rows)
     /\ \A r \in candidates \ returned : \A x \in returned : sim(x) >= sim(r)

\* C21: a search with a category filter returns the top_k best rows among
\* those of the tenant that carry the category and reach the floor: the
\* filter is applied before the cut to top_k.
FilterBeforeTruncation ==
  /\ (req.op = "search" /\ Truthy(req.category_filter) /\ res # Raised) =>
       BestRows(res.rows, req.query,
                Matching(req.query, req.tenant_id, req.category_filter,
                         req.similarity_threshold), req.top_k)
  /\ (req.op = "hybrid_search" /\ res # Raised) =>
       BestRows(res.rows, req.query,
                Matching(req.query, req.tenant_id, req.category, 30), req.top_k)

\* a filtered search that returned a row although a row of another category
\* of the tenant is more similar to the query
BetterRowOfOtherCategory ==
  /\ req.op = "search"
  /\ Truthy(req.category_filter)
  /\ res # Raised
  /\ Len(res.rows) = req.top_k
  /\ \E r \in sops :
       /\ r.tenant_id = req.tenant_id
       /\ r.category # req.category_filter
       /\ \A i \in 1..Len(res.rows) :
            Similarity(r.embedding, embed_text(req.query)) > res.rows[i].similarity

\* C22: the similarity floor is inclusive: no returned row lies below the
\* floor, and a row of the tenant (and of the category asked for) whose
\* similarity is the floor or more is left out only when top_k rows at least
\* as similar are returned.
FloorIsInclusive ==
  (req.op = "search" /\ res # Raised) =>
    LET sim(r) == Similarity(r.embedding, embed_text(req.query))
        eligible == {r \in sops : /\ r.tenant_id = req.tenant_id
                                  /\ Truthy(req.category_filter) =>
                                       r.category = req.category_filter
                                  /\ sim(r) >= req.similarity_threshold}
    IN /\ \A i \in 1..Len(res.rows) : res.rows[i].similarity >= req.similarity_threshold
       /\ \A r \in eligible :
            \/ \E i \in 1..Len(res.rows) : res.rows[i].id = r.id
            \/ /\ Len(res.rows) = req.top_k
               /\ \A i \in 1..Len(res.rows) : res.rows[i].similarity >= sim(r)

\* a returned row whose similarity is exactly the floor, and a row of the
\* tenant below the floor that is not returned
RowAtTheFloor ==
  /\ req.op = "search"
  /\ res # Raised
  /\ \E i \in 1..Len(res.rows) : res.rows[i].similarity = req.similarity_threshold
  /\ \E r \in sops :
       /\ r.tenant_id = req.tenant_id
       /\ Similarity(r.embedding, embed_text(req.query)) < req.similarity_threshold

\* C23: the rows of a result come by descending similarity, rows of equal
\* similarity by ascending chunk_index and then ascending id, so that the
\* same query against the same table has one answer.
DeterministicOrder ==
  (req.op \in {"search", "hybrid_search"} /\ res # Raised) =>
    \A i, j \in 1..Len(res.rows) : i < j =>
      \/ res.rows[i].similarity > res.rows[j].similarity
      \/ /\ res.rows[i].similarity = res.rows[j].similarity
         /\ \/ res.rows[i].chunk_index < res.rows[j].chunk_index
            \/ /\ res.rows[i].chunk_index = res.rows[j].chunk_index
               /\ res.rows[i].id < res.rows[j].id

\* C24: a search for a tenant without rows answers with the empty result and
\* no error when the store is reachable; a search while the store is
\* unreachable raises to its caller and never answers with rows or with the
\* empty result.
FaultSurfaces ==
  [][(req = Idle /\ req'.op \in {"search", "hybrid_search"}) =>
       /\ ~dbUp => res' = Raised
       /\ dbUp => res' # Raised
       /\ (dbUp /\ \A r \in sops : r.tenant_id # req'.tenant_id) => res' = [rows |-> <<>>]]_vars

\* a search that raised while the store was unreachable
SearchRaised ==
  /\ req.op = "search"
  /\ res = Raised
  /\ ~dbUp

\* a search for a tenant without rows, beside rows of another tenant, answered empty
UnknownTenantEmpty ==
  /\ req.op = "search"
  /\ res = [rows |-> <<>>]
  /\ sops # {}
  /\ \A r \in sops : r.tenant_id # req.tenant_id

\* the last n characters of s
Tail_n(s, n) == SubSeq(s, Len(s) - n + 1, Len(s))

\* C25: of two consecutive chunks the later begins with exactly the last
\* `overlap` characters of the earlier, and with no more of it, for the
\* paragraph and for the sentence strategy and for overlap 0 as well.
ChunksOverlap ==
  (req.op \in {"chunk_by_paragraphs", "chunk_by_sentences"}) =>
    \A i \in 1..(Len(res.chunks) - 1) :
      LET prev == res.chunks[i]
          next == res.chunks[i + 1]
          k == req.overlap
      IN /\ (Len(prev) >= k /\ Len(next) >= k) =>
              SubSeq(next, 1, k) = Tail_n(prev, k)
         /\ (Len(prev) >= k + 1 /\ Len(next) >= k + 1) =>
              SubSeq(next, 1, k + 1) # Tail_n(prev, k + 1)

\* C27: delete_tenant_sops(t) that returns removes every row of tenant t and
\* no other row, and returns the number of rows t had; a delete for a tenant
\* without rows, such as a second delete, returns 0.
DeleteRemovesTenantOnly ==
  [][(req = Idle /\ req'.op = "delete_tenant_sops" /\ res' # Raised) =>
       LET of_tenant == {r \in sops : r.tenant_id = req'.tenant_id}
       IN /\ \A r \in sops' : r.tenant_id # req'.tenant_id
          /\ sops' = sops \ of_tenant
          /\ res'.deleted = Cardinality(of_tenant)
          /\ of_tenant = {} => res'.deleted = 0]_vars

\* a delete that removed rows of its tenant and left rows of another
DeletedBesideOthers ==
  /\ req.op = "delete_tenant_sops"
  /\ res # Raised
  /\ res.deleted > 0
  /\ sops # {}

\* C30: ingest_sop is all or nothing: when it returns n, the table gained
\* exactly n rows, all of the SOP's tenant and title, with chunk_index 0..n-1,
\* and kept every row it had; when it raises, the table is as it was.
IngestAllOrNothing ==
  [][(req = Idle /\ req'.op = "ingest_sop") =>
       LET added == sops' \ sops
       IN IF res' = Raised
            THEN sops' = sops
            ELSE /\ sops \subseteq sops'
                 /\ Cardinality(added) = res'.chunks
                 /\ \A r \in added : /\ r.tenant_id = req'.tenant_id
                                     /\ r.title = req'.title
                                     /\ r.category = req'.category
                 /\ {r.chunk_index : r \in added} = 0..(res'.chunks - 1)]_vars

\* an ingest that returned 2 and left the two chunks of its SOP in the table
IngestedTwoChunks ==
  /\ req.op = "ingest_sop"
  /\ res = [chunks |-> 2]
  /\ {r.chunk_index : r \in {x \in sops : x.tenant_id = req.tenant_id}} = {0, 1}

\* an ingest that raised although rows were handed their serial numbers
IngestRaisedAtInsert ==
  /\ req.op = "ingest_sop"
  /\ res = Raised
  /\ nextId > 1
  /\ sops = {}

(***************************************************************************)
(* The AI service with several requests in flight (SpecServe).  A handler  *)
(* of /classify or /rag runs without suspending; the handler of /plan may  *)
(* be suspended where it awaits retrieve_sops.                             *)
(***************************************************************************)
\* src/ai-service/rag/embeddings.py: get_embedding_service
get_embedding_service(service, created) ==
  IF service = Absent
    THEN [service |-> [instance |-> created + 1], instances |-> created + 1]
    ELSE [service |-> service, instances |-> created]

\* import of main.py: retriever = SOPRetriever(DB_CONFIG) takes the
\* embedding service before the application serves a request
ImportMain ==
  /\ embedding_service = Absent
  /\ LET got == get_embedding_service(embedding_service, instances)
     IN /\ embedding_service' = got.service
        /\ instances' = got.instances
  /\ UNCHANGED <<req, res, dbUp, sops, nextId, client, kb, handlers, replacing>>

\* a handler that holds the classification of any handler suspended in /plan
ClassificationOfAny(hs, h) ==
  IF \E g \in Handlers \ {h} : hs[g].pc \in {"classified", "retrieved"}
    THEN hs[CHOOSE g \in Handlers \ {h} : hs[g].pc \in {"classified", "retrieved"}].classification
    ELSE hs[h].classification

\* the local variable classification of generate_action_plan in handler h
ClassificationOf(hs, h) == hs[h].classification

InitServe ==
  /\ req = Idle
  /\ res = Idle
  /\ dbUp = TRUE
  /\ sops = IngestAll(SampleSops, {}, 1)
  /\ nextId = 1 + Cardinality(sops)
  /\ client = None
  /\ kb = <<>>
  /\ NoEmbeddingService

ServeClassify(h) ==
  /\ embedding_service # Absent
  /\ handlers[h] = Free
  /\ \E ticket \in ProbeTickets :
       handlers' = [handlers EXCEPT ![h] =
                      [pc |-> "done", op |-> "classify", ticket |-> ticket,
                       res |-> [status |-> 200,
                                body |-> classify_ticket_intent(ticket.subject,
                                                                ticket.description)]]]
  /\ UNCHANGED <<req, res, dbUp, sops, nextId, client, kb, embedding_service, instances,
                 replacing>>

ServeRag(h) ==
  /\ embedding_service # Absent
  /\ handlers[h] = Free
  /\ \E ticket \in ProbeTickets, intent_param \in {None, "VPN_ACCESS"} :
       \E response \in retrieve_sops(sops, dbUp, ticket, intent_param) :
         handlers' = [handlers EXCEPT ![h] =
                        [pc |-> "done", op |-> "rag", ticket |-> ticket,
                         intent |-> intent_param, res |-> response]]
  /\ UNCHANGED <<req, res, dbUp, sops, nextId, client, kb, embedding_service, instances,
                 replacing>>

\* generate_action_plan up to the await
PlanClassify(h) ==
  /\ embedding_service # Absent
  /\ handlers[h] = Free
  /\ \E ticket \in ProbeTickets :
       handlers' = [handlers EXCEPT ![h] =
                      [pc |-> "classified", op |-> "plan", ticket |-> ticket,
                       classification |-> classify_ticket_intent(ticket.subject,
                                                                 ticket.description)]]
  /\ UNCHANGED <<req, res, dbUp, sops, nextId, client, kb, embedding_service, instances,
                 replacing>>

\* rag_response = await retrieve_sops(ticket, intent=classification.intent)
PlanRetrieve(h) ==
  /\ handlers[h].pc = "classified"
  /\ \E rag_response \in retrieve_sops(sops, dbUp, handlers[h].ticket,
                                       ClassificationOf(handlers, h).intent) :
       handlers' = [handlers EXCEPT ![h] =
                      [pc |-> "retrieved", op |-> "plan", ticket |-> handlers[h].ticket,
                       classification |-> handlers[h].classification,
                       rag_response |-> rag_response]]
  /\ UNCHANGED <<req, res, dbUp, sops, nextId, client, kb, embedding_service, instances,
                 replacing>>

\* the rest of generate_action_plan: the HTTPException of retrieve_sops
\* leaves the handler, otherwise the plan is built from the classification
PlanBuild(h) ==
  /\ handlers[h].pc = "retrieved"
  /\ handlers' = [handlers EXCEPT ![h] =
                    [pc |-> "done", op |-> "plan", ticket |-> handlers[h].ticket,
                     res |-> IF handlers[h].rag_response.status # 200
                               THEN handlers[h].rag_response
                               ELSE [status |-> 200,
                                     body |-> PlanResponse(handlers[h].ticket,
                                                ClassificationOf(handlers, h))]]]
  /\ UNCHANGED <<req, res, dbUp, sops, nextId, client, kb, embedding_service, instances,
                 replacing>>

\* the response of handler h is sent
Deliver(h) ==
  /\ handlers[h].pc = "done"
  /\ handlers' = [handlers EXCEPT ![h] = Free]
  /\ UNCHANGED <<req, res, dbUp, sops, nextId, client, kb, embedding_service, instances,
                 replacing>>

NextServe ==
  \/ ImportMain
  \/ \E h \in Handlers : ServeClassify(h)
  \/ \E h \in Handlers : ServeRag(h)
  \/ \E h \in Handlers : PlanClassify(h)
  \/ \E h \in Handlers : PlanRetrieve(h)
  \/ \E h \in Handlers : PlanBuild(h)
  \/ \E h \in Handlers : Deliver(h)
  \/ StoreFails
  \/ StoreRecovers

SpecServe == InitServe /\ [][NextServe]_vars

\* the responses a request gets when it is the only one handled, against
\* the same index contents
Alone(f) ==
  LET classification == classify_ticket_intent(f.ticket.subject, f.ticket.description)
      retrieved(intent) == UNION {retrieve_sops(sops, up, f.ticket, intent) : up \in BOOLEAN}
  IN CASE f.op = "classify" -> {[status |-> 200, body |-> classification]}
       [] f.op = "rag" -> retrieved(f.intent)
       [] f.op = "plan" ->
            {IF r.status # 200 THEN r
             ELSE [status |-> 200, body |-> PlanResponse(f.ticket, classification)] :
               r \in retrieved(classification.intent)}

\* C18: requests handled together do not change shared state: the response
\* of each is one it gets when handled alone against the same index, the
\* embedding service the retriever took at import stays the one instance
\* ever constructed.
RequestsIndependent ==
  /\ instances <= 1
  /\ embedding_service \in {Absent, [instance |-> 1]}
  /\ \A h \in Handlers :
       handlers[h].pc = "done" => handlers[h].res \in Alone(handlers[h])

\* a /plan answered while another /plan, of another ticket, is suspended
PlanAnsweredBesideAnother ==
  /\ handlers["h1"].pc = "done"
  /\ handlers["h1"].op = "plan"
  /\ handlers["h1"].res.status = 200
  /\ handlers["h2"].pc = "retrieved"
  /\ handlers["h2"].classification.intent # handlers["h1"].res.body.intent
  /\ instances = 1

(***************************************************************************)
(* Properties of the knowledge base (SpecKb).                              *)
(***************************************************************************)
\* C1: every result of a retrieval for tenant t1 belongs to t1: the documents
\* RAGKnowledgeBase.retrieve returns for client_id t1 have client_id t1, and
\* the rows SOPRetriever.search and hybrid_search return for t1, and the
\* chunks POST /rag returns for a ticket of t1, have tenant_id t1.
TenantIsolation ==
  /\ (req.op = "kb_retrieve" /\ Truthy(req.client_id)) =>
       \A i \in 1..Len(res.results) : res.results[i].sop.client_id = req.client_id
  /\ (req.op = "rag" /\ res.status = 200) =>
       \A i \in 1..Len(res.body.results) : \A r \in sops :
         r.id = res.body.results[i].sop_id => r.tenant_id = req.ticket.tenantId
  /\ (req.op \in {"search", "hybrid_search"} /\ res # Raised) =>
       \A i \in 1..Len(res.rows) : res.rows[i].tenant_id = req.tenant_id

\* C17: no retrieval runs with the tenant omitted, defaulted or replaced:
\* RAGKnowledgeBase.retrieve called without a client_id returns no tenant's
\* documents, and called with one it adds no document of the shared
\* "default" client; POST /rag searches with the tenantId of its ticket.
RetrievalScopedByTenant ==
  /\ (req.op = "kb_retrieve" /\ ~Truthy(req.client_id)) =>
       \A i \in 1..Len(res.results) : res.results[i].sop.client_id \notin Tenants
  /\ (req.op = "kb_retrieve" /\ Truthy(req.client_id)) =>
       \A i \in 1..Len(res.results) : res.results[i].sop.client_id # "default"
  /\ (req.op = "rag" /\ res.status = 200) =>
       \A i \in 1..Len(res.body.results) :
         \E r \in sops : r.id = res.body.results[i].sop_id
                         /\ r.tenant_id = req.ticket.tenantId

\* a retrieval for a tenant that returned a document
TenantRetrieved ==
  /\ req.op = "kb_retrieve"
  /\ Truthy(req.client_id)
  /\ res.results # <<>>

====
